---- MODULE Spec2Model ----
(***************************************************************************)
(* Model of kubeval's command entry point (main.go): RootCmd.Run, with     *)
(* logResults, aggregateFiles and earlyExit.  The external collaborators   *)
(* (os.Stdin.Stat, ioutil.ReadFile, filepath.Walk's file system,           *)
(* kubeval.ValidateWithCache) are inputs: their outcomes are chosen from   *)
(* small sets, the code that reacts to them is translated from the source. *)
(***************************************************************************)
EXTENDS Integers, Sequences, FiniteSets, TLC

(* ------------------------------ bounds -------------------------------- *)
MaxArgs == 2        \* positional arguments on the command line
MaxDirs == 2        \* entries of the --directories flag
MaxResults == 2     \* ValidationResults one Validator call returns (Spec)
MaxDocs == 2        \* ValidationResults handed to logResults (SpecLog)

SeqsUpTo(S, n) == UNION {[1..k -> S] : k \in 0..n}

(* ------------------------------ inputs -------------------------------- *)
\* positional arguments the command may be given
ArgNames == {"-", "a.yaml"}
\* values of the --directories flag
DirNames == {"d1", "nodir", "d3"}
\* runtime.GOOS
Platforms == {"windows", "linux"}
\* os.Stdin.Stat(): an error, or a mode with / without os.ModeCharDevice
StatOutcomes == {"err", "chardev", "pipe"}
\* viper.GetString("filename")
ViperFilename == "stdin"

NoErr == ""

(* The file system filepath.Walk sees: for each root, the entries in the   *)
(* order Walk visits them (lexical pre-order), each with what Walk hands   *)
(* to the callback: the path, info.Name(), the kind of entry Lstat reports *)
(* (dir, regular, symlink) and the error.                                  *)
Entry(p, n, m, e) == [path |-> p, name |-> n, mode |-> m, err |-> e]

Tree(directory) ==
    CASE directory = "d1" ->
           << Entry("d1", "d1", "dir", NoErr),
              Entry("d1/B.YAML", "B.YAML", "regular", NoErr),
              Entry("d1/a.yaml", "a.yaml", "regular", NoErr),
              Entry("d1/pod.yml", "pod.yml", "regular", NoErr),
              Entry("d1/sub.yaml", "sub.yaml", "dir", NoErr),
              Entry("d1/yaml", "yaml", "regular", NoErr) >>
      [] directory = "d3" ->
           << Entry("d3", "d3", "dir", NoErr),
              Entry("d3/l.yaml", "l.yaml", "symlink", NoErr),
              Entry("d3/locked", "locked", "dir", "open d3/locked: permission denied"),
              Entry("d3/z.yaml", "z.yaml", "regular", NoErr) >>
      [] OTHER ->
           << Entry(directory, directory, "regular",
                    "lstat " \o directory \o ": no such file or directory") >>

\* os.FileInfo.IsDir
IsDir(info) == info.mode = "dir"

(* ------------------------- pure functions ----------------------------- *)
\* strings.HasSuffix
HasSuffix(s, suffix) ==
    /\ Len(s) >= Len(suffix)
    /\ SubSeq(s, Len(s) - Len(suffix) + 1, Len(s)) = suffix

\* mutant of walkFn: the IsDir test left out
walkFn_noDirCheck(files, path, info, err) ==
    IF err # NoErr
    THEN [files |-> files, err |-> err]
    ELSE IF HasSuffix(info.name, ".yaml")
         THEN [files |-> Append(files, path), err |-> NoErr]
         ELSE [files |-> files, err |-> NoErr]

\* the callback aggregateFiles gives filepath.Walk: the files after the
\* visit, and the error it returns
walkFn(files, path, info, err) ==
    IF err # NoErr
    THEN [files |-> files, err |-> err]
    ELSE IF ~IsDir(info) /\ HasSuffix(info.name, ".yaml")
         THEN [files |-> Append(files, path), err |-> NoErr]
         ELSE [files |-> files, err |-> NoErr]

\* filepath.Walk with that callback: it never returns SkipDir, so the first
\* error it returns ends the walk and is Walk's result
RECURSIVE WalkFrom(_, _, _)
WalkFrom(visits, i, files) ==
    IF i > Len(visits)
    THEN [files |-> files, err |-> NoErr]
    ELSE LET r == walkFn(files, visits[i].path, visits[i], visits[i].err)
         IN IF r.err # NoErr THEN r ELSE WalkFrom(visits, i + 1, r.files)

Walk(directory, files) == WalkFrom(Tree(directory), 1, files)

\* *multierror.Error: nil, or the list of the errors appended
NilError == [isNil |-> TRUE, Errors |-> <<>>]

\* mutant of MultiAppend: an error already held is not added again
MultiAppend_dedup(allErrors, err) ==
    IF \E i \in 1..Len(allErrors.Errors) : allErrors.Errors[i] = err
    THEN allErrors
    ELSE [isNil |-> FALSE, Errors |-> Append(allErrors.Errors, err)]

\* multierror.Append(allErrors, err)
MultiAppend(allErrors, err) ==
    [isNil |-> FALSE, Errors |-> Append(allErrors.Errors, err)]

\* (*multierror.Error).ErrorOrNil
ErrorOrNil(e) ==
    IF e.isNil \/ Len(e.Errors) = 0 THEN NilError ELSE e

\* mutant of WalkAll: the first failing walk ends aggregateFiles
RECURSIVE WalkAll_stopAtError(_, _, _, _)
WalkAll_stopAtError(dirs, i, files, allErrors) ==
    IF i > Len(dirs)
    THEN [files |-> files, err |-> ErrorOrNil(allErrors)]
    ELSE LET w == Walk(dirs[i], files)
         IN IF w.err # NoErr
            THEN [files |-> w.files, err |-> ErrorOrNil(MultiAppend(allErrors, w.err))]
            ELSE WalkAll_stopAtError(dirs, i + 1, w.files, allErrors)

RECURSIVE WalkAll(_, _, _, _)
WalkAll(dirs, i, files, allErrors) ==
    IF i > Len(dirs)
    THEN [files |-> files, err |-> ErrorOrNil(allErrors)]
    ELSE LET w == Walk(dirs[i], files)
         IN WalkAll(dirs, i + 1, w.files,
                    IF w.err # NoErr THEN MultiAppend(allErrors, w.err)
                                     ELSE allErrors)

\* aggregateFiles(args), reading the package variable directories
aggregateFilesOf(a, dirs) == WalkAll(dirs, 1, a, NilError)

\* one reporting emission (a call of the log package)
Emit(cat, file, kind, desc) ==
    [cat |-> cat, file |-> file, kind |-> kind, desc |-> desc]

RECURSIVE InfoLines(_, _)
InfoLines(errs, i) ==
    IF i > Len(errs) THEN <<>>
    ELSE <<Emit("--->", "", "", errs[i])>> \o InfoLines(errs, i + 1)

\* mutant of Category: the kind is tested before the error list
Category_kindFirst(result) ==
    IF result.Kind = "" THEN "EMPTY_DOCUMENT"
    ELSE IF Len(result.Errors) > 0 THEN "INVALID"
    ELSE IF ~result.ValidatedAgainstSchema THEN "SKIPPED_NO_SCHEMA"
    ELSE "VALID"

\* the branch of logResults' if / else-if chain a result takes
Category(result) ==
    IF Len(result.Errors) > 0 THEN "INVALID"
    ELSE IF result.Kind = "" THEN "EMPTY_DOCUMENT"
    ELSE IF ~result.ValidatedAgainstSchema THEN "SKIPPED_NO_SCHEMA"
    ELSE "VALID"

\* what the loop body of logResults emits for one result
EmitResult(result) ==
    LET c == Category(result) IN
    IF c = "INVALID"
    THEN <<Emit(c, result.FileName, result.Kind, "")>> \o InfoLines(result.Errors, 1)
    ELSE IF c = "EMPTY_DOCUMENT"
         THEN <<Emit(c, result.FileName, "", "")>>
         ELSE <<Emit(c, result.FileName, result.Kind, "")>>

\* logResults(results, success): the flag it returns and what it emits
RECURSIVE logResultsFrom(_, _, _, _)
logResultsFrom(rs, i, succ, out) ==
    IF i > Len(rs)
    THEN [success |-> succ, out |-> out]
    ELSE logResultsFrom(rs, i + 1,
                        IF Category(rs[i]) = "INVALID" THEN FALSE ELSE succ,
                        out \o EmitResult(rs[i]))

\* mutant of logResults: every result sets the flag, the last one wins
RECURSIVE logResultsFrom_lastWins(_, _, _, _)
logResultsFrom_lastWins(rs, i, succ, out) ==
    IF i > Len(rs)
    THEN [success |-> succ, out |-> out]
    ELSE logResultsFrom_lastWins(rs, i + 1, Category(rs[i]) # "INVALID",
                                 out \o EmitResult(rs[i]))

logResults_lastWins(rs, succ) == logResultsFrom_lastWins(rs, 1, succ, <<>>)

\* mutant of logResults: the results are taken last to first
RECURSIVE logResultsFrom_reversed(_, _, _, _)
logResultsFrom_reversed(rs, i, succ, out) ==
    IF i < 1
    THEN [success |-> succ, out |-> out]
    ELSE logResultsFrom_reversed(rs, i - 1,
                                 IF Category(rs[i]) = "INVALID" THEN FALSE ELSE succ,
                                 out \o EmitResult(rs[i]))

logResults_reversed(rs, succ) == logResultsFrom_reversed(rs, Len(rs), succ, <<>>)

logResults(rs, succ) == logResultsFrom(rs, 1, succ, <<>>)

\* the condition of the if at line 62: read standard input
ModeCharDevice(st) == st = "chardev"

\* len(args) < 1 || args[0] == "-"
NoArgsOrDash(a) == IF Len(a) < 1 THEN TRUE ELSE a[1] = "-"

\* mutant of UseStdin: windowsStdinIssue not consulted
UseStdin_noIssueCheck(a, wsi, st) ==
    NoArgsOrDash(a) /\ ~ModeCharDevice(st)

UseStdin(a, wsi, st) ==
    NoArgsOrDash(a) /\ ~wsi /\ ~ModeCharDevice(st)

\* the condition of the if at line 77: nothing to validate
\* mutant of NoSources: the directories test off by one
NoSources_offByOne(a, dirs) == Len(a) < 1 /\ Len(dirs) < 0

NoSources(a, dirs) == Len(a) < 1 /\ Len(dirs) < 1

\* mutants of earlyExit: the flag ignored, either way
earlyExit_never(exitOnError) == FALSE

earlyExit_always(exitOnError) == TRUE

\* earlyExit(): TRUE when it ends the process
earlyExit(exitOnError) == exitOnError

(* ------------------------------ state --------------------------------- *)
VARIABLES
    pc,                 \* where Run is: start, select, loop, validate, log, end, exited
    args,               \* the positional arguments
    directories,        \* the package variable directories
    ExitOnError,        \* config.ExitOnError
    FileName,           \* config.FileName
    GOOS,               \* runtime.GOOS
    stat,               \* what os.Stdin.Stat() gives
    success,            \* Run's local success
    windowsStdinIssue,  \* Run's local windowsStdinIssue
    path,               \* the branch of the if at line 62 taken: none, stdin, files
    files,              \* the list aggregateFiles returned
    aggErr,             \* the error aggregateFiles returned
    idx,                \* position of the range loop in files (1-based)
    results,            \* what the last ValidateWithCache call returned
    emitted,            \* what the last step handed to the log package
    exitCode,           \* the process' exit status, -1 while it runs
    exitAt,             \* the statement that ended the process
    caches,             \* number of kubeval.NewSchemaCache() calls so far
    nCalls,             \* number of ValidateWithCache calls so far
    lastCall,           \* arguments of the last ValidateWithCache call
    stdinRead,          \* standard input was scanned
    scanned,            \* the lines the scanner read from standard input
    walks,              \* number of filepath.Walk calls so far
    attempted,          \* the files ioutil.ReadFile was called on, in order
    sawInvalid,         \* some returned result had a non-empty error list
    sawReadFail,        \* some ioutil.ReadFile call failed
    sawInvokeErr        \* some ValidateWithCache call returned an error

vars == << pc, args, directories, ExitOnError, FileName, GOOS, stat, success,
           windowsStdinIssue, path, files, aggErr, idx, results, emitted,
           exitCode, exitAt, caches, nCalls, lastCall, stdinRead, scanned,
           walks, attempted, sawInvalid, sawReadFail, sawInvokeErr >>

inputs == << args, directories, ExitOnError, GOOS, stat >>

\* the shapes of document the Validator reports on
Kinds == {"", "Pod"}
ErrorLists == {<<>>, <<"e1", "e2">>}
Shapes == [Kind : Kinds, Errors : ErrorLists, ValidatedAgainstSchema : BOOLEAN]
\* the shapes a Validator call of a whole run returns: a document with and
\* without schema errors (SpecLog gives logResults every shape)
RunShapes == {s \in Shapes : s.Kind = "Pod" /\ s.ValidatedAgainstSchema}

\* a kubeval.ValidationResult: the Validator stamps it with config.FileName
Result(shape, name) ==
    [FileName |-> name, Kind |-> shape.Kind, Errors |-> shape.Errors,
     ValidatedAgainstSchema |-> shape.ValidatedAgainstSchema]

Stamp(shapes, name) == [i \in 1..Len(shapes) |-> Result(shapes[i], name)]

HasInvalid(rs) == \E i \in 1..Len(rs) : Len(rs[i].Errors) > 0

\* what standard input may hold, as the lines scanner.Text() returns
StdinContents == {<<>>, <<"a: 1">>, <<"kind: Pod", "a: 1">>}

\* lines 63-67: the buffer after the scan, every line followed by a newline
RECURSIVE BufferFrom(_, _, _)
BufferFrom(lines, i, buffer) ==
    IF i > Len(lines) THEN buffer
    ELSE BufferFrom(lines, i + 1, buffer \o lines[i] \o "\n")

\* mutant of Buffer: the lines written without the newline
RECURSIVE Buffer_noNewlineFrom(_, _, _)
Buffer_noNewlineFrom(lines, i, buffer) ==
    IF i > Len(lines) THEN buffer
    ELSE Buffer_noNewlineFrom(lines, i + 1, buffer \o lines[i])

Buffer_noNewline(lines) == Buffer_noNewlineFrom(lines, 1, "")

Buffer(lines) == BufferFrom(lines, 1, "")

\* line 89: the bytes ioutil.ReadFile returns for a file
FileContents(fileName) == "contents of " \o fileName

\* mutant of fileNameForCall: the field keeps the name of the source before
fileNameForCall_stale(current, fileName) == current

\* line 96: config.FileName = fileName
fileNameForCall(current, fileName) == fileName

\* mutant of CallArgs: a cache made for the call is passed, not the run's
CallArgs_freshCache(src, data, schemaCache, configFileName) ==
    [src |-> src, data |-> data, cache |-> schemaCache + 1, fileName |-> configFileName]

\* lines 70 and 97: kubeval.ValidateWithCache(data, schemaCache, config), with
\* the source the data comes from
CallArgs(src, data, schemaCache, configFileName) ==
    [src |-> src, data |-> data, cache |-> schemaCache, fileName |-> configFileName]

NoCall == [src |-> "", data |-> "", cache |-> 0, fileName |-> ""]

\* line 84: err.Error() of the combined error, one line for each component
RECURSIVE ErrorTextFrom(_, _)
ErrorTextFrom(errs, i) ==
    IF i > Len(errs) THEN ""
    ELSE "* " \o errs[i] \o "\n" \o ErrorTextFrom(errs, i + 1)

ErrorText(e) == "errors occurred:\n" \o ErrorTextFrom(e.Errors, 1)

Init ==
    /\ pc = "start"
    /\ args \in SeqsUpTo(ArgNames, MaxArgs)
    /\ directories \in SeqsUpTo(DirNames, MaxDirs)
    /\ ExitOnError \in BOOLEAN
    /\ GOOS \in Platforms
    /\ stat \in StatOutcomes
    /\ FileName = ""
    /\ success = TRUE
    /\ windowsStdinIssue = FALSE
    /\ path = "none"
    /\ files = <<>>
    /\ aggErr = NilError
    /\ idx = 0
    /\ results = <<>>
    /\ emitted = <<>>
    /\ exitCode = -1
    /\ exitAt = ""
    /\ caches = 0
    /\ nCalls = 0
    /\ lastCall = NoCall
    /\ stdinRead = FALSE
    /\ scanned = <<>>
    /\ walks = 0
    /\ attempted = <<>>
    /\ sawInvalid = FALSE
    /\ sawReadFail = FALSE
    /\ sawInvokeErr = FALSE

\* os.Exit(code) at the statement named where
Exit(code, where) ==
    /\ pc' = "exited"
    /\ exitCode' = code
    /\ exitAt' = where

Running(next) ==
    /\ pc' = next
    /\ UNCHANGED << exitCode, exitAt >>

ErrorLine(text) == <<Emit("ERROR", "", "", text)>>

\* lines 42-55: probe standard input
Stat ==
    /\ pc = "start"
    /\ IF stat = "err"
       THEN IF GOOS # "windows"
            THEN /\ emitted' = ErrorLine("stat")
                 /\ Exit(1, "stat")
                 /\ UNCHANGED windowsStdinIssue
            ELSE /\ windowsStdinIssue' = TRUE
                 /\ emitted' = <<>>
                 /\ Running("select")
       ELSE /\ emitted' = <<>>
            /\ Running("select")
            /\ UNCHANGED windowsStdinIssue
    /\ UNCHANGED << inputs, scanned, FileName, success, path, files, aggErr, idx, results,
                    caches, nCalls, lastCall, stdinRead, walks, attempted,
                    sawInvalid, sawReadFail, sawInvokeErr >>

\* mutant of ReadStdin: a failed Validator call applies the early-exit policy
ReadStdin_earlyExit ==
    /\ pc = "select"
    /\ UseStdin(args, windowsStdinIssue, stat)
    /\ path' = "stdin"
    /\ stdinRead' = TRUE
    /\ caches' = caches + 1
    /\ FileName' = ViperFilename
    /\ nCalls' = nCalls + 1
    /\ \E lines \in StdinContents :
          /\ scanned' = lines
          /\ lastCall' = CallArgs("stdin", Buffer(lines), caches', FileName')
    /\ \/ /\ results' = <<>>
          /\ sawInvokeErr' = TRUE
          /\ emitted' = ErrorLine("validate")
          /\ IF earlyExit(ExitOnError)
             THEN /\ Exit(1, "stdin")
                  /\ UNCHANGED success
             ELSE /\ success' = FALSE
                  /\ Running("log")
       \/ \E shapes \in SeqsUpTo(RunShapes, MaxResults) :
             /\ results' = Stamp(shapes, FileName')
             /\ emitted' = <<>>
             /\ Running("log")
             /\ UNCHANGED << success, sawInvokeErr >>
    /\ UNCHANGED << inputs, windowsStdinIssue, files, aggErr, idx, walks,
                    attempted, sawInvalid, sawReadFail >>

\* lines 62-74: the stdin branch up to the Validator's return
ReadStdin ==
    /\ pc = "select"
    /\ UseStdin(args, windowsStdinIssue, stat)
    /\ path' = "stdin"
    /\ stdinRead' = TRUE
    /\ caches' = caches + 1
    /\ FileName' = ViperFilename
    /\ nCalls' = nCalls + 1
    /\ \E lines \in StdinContents :
          /\ scanned' = lines
          /\ lastCall' = CallArgs("stdin", Buffer(lines), caches', FileName')
    /\ \/ /\ results' = <<>>
          /\ sawInvokeErr' = TRUE
          /\ emitted' = ErrorLine("validate")
          /\ Exit(1, "stdin")
       \/ \E shapes \in SeqsUpTo(RunShapes, MaxResults) :
             /\ results' = Stamp(shapes, FileName')
             /\ emitted' = <<>>
             /\ Running("log")
             /\ UNCHANGED sawInvokeErr
    /\ UNCHANGED << inputs, success, windowsStdinIssue, files, aggErr, idx, walks,
                    attempted, sawInvalid, sawReadFail >>

\* lines 77-80: the file branch with nothing to validate
UsageError ==
    /\ pc = "select"
    /\ ~UseStdin(args, windowsStdinIssue, stat)
    /\ NoSources(args, directories)
    /\ path' = "files"
    /\ emitted' = ErrorLine("usage")
    /\ Exit(1, "usage")
    /\ UNCHANGED << inputs, scanned, FileName, success, windowsStdinIssue, files, aggErr, idx,
                    results, caches, nCalls, lastCall, stdinRead, walks, attempted,
                    sawInvalid, sawReadFail, sawInvokeErr >>

\* mutant of Aggregate: a failed walk applies the early-exit policy
Aggregate_earlyExit ==
    /\ pc = "select"
    /\ ~UseStdin(args, windowsStdinIssue, stat)
    /\ ~NoSources(args, directories)
    /\ path' = "files"
    /\ caches' = caches + 1
    /\ LET r == aggregateFilesOf(args, directories) IN
         /\ files' = r.files
         /\ aggErr' = r.err
         /\ IF ~r.err.isNil
            THEN /\ emitted' = ErrorLine(ErrorText(r.err))
                 /\ IF earlyExit(ExitOnError)
                    THEN /\ Exit(1, "earlyExit")
                         /\ UNCHANGED success
                    ELSE /\ success' = FALSE
                         /\ Running("loop")
            ELSE /\ emitted' = <<>>
                 /\ UNCHANGED success
                 /\ Running("loop")
    /\ walks' = walks + Len(directories)
    /\ idx' = 1
    /\ UNCHANGED << inputs, scanned, FileName, windowsStdinIssue, results, nCalls, lastCall,
                    stdinRead, attempted, sawInvalid, sawReadFail, sawInvokeErr >>

\* lines 81-86: the cache, the file list and the walk errors
Aggregate ==
    /\ pc = "select"
    /\ ~UseStdin(args, windowsStdinIssue, stat)
    /\ ~NoSources(args, directories)
    /\ path' = "files"
    /\ caches' = caches + 1
    /\ LET r == aggregateFilesOf(args, directories) IN
         /\ files' = r.files
         /\ aggErr' = r.err
         /\ IF ~r.err.isNil
            THEN /\ emitted' = ErrorLine(ErrorText(r.err))
                 /\ success' = FALSE
            ELSE /\ emitted' = <<>>
                 /\ UNCHANGED success
    /\ walks' = walks + Len(directories)
    /\ idx' = 1
    /\ Running("loop")
    /\ UNCHANGED << inputs, scanned, FileName, windowsStdinIssue, results, nCalls, lastCall,
                    stdinRead, attempted, sawInvalid, sawReadFail, sawInvokeErr >>

\* mutant of ReadFile: the continue after a failed read is missing
ReadFile_noContinue ==
    /\ pc = "loop"
    /\ idx <= Len(files)
    /\ attempted' = Append(attempted, files[idx])
    /\ \/ /\ emitted' = <<>>
          /\ Running("validate")
          /\ UNCHANGED << success, idx, sawReadFail >>
       \/ /\ emitted' = <<Emit("ERROR", files[idx], "", "Could not open file")>>
          /\ sawReadFail' = TRUE
          /\ IF earlyExit(ExitOnError)
             THEN /\ Exit(1, "earlyExit")
                  /\ UNCHANGED << success, idx >>
             ELSE /\ success' = FALSE
                  /\ Running("validate")
                  /\ UNCHANGED idx
    /\ UNCHANGED << inputs, scanned, FileName, windowsStdinIssue, path, files, aggErr, results,
                    caches, nCalls, lastCall, stdinRead, walks, sawInvalid,
                    sawInvokeErr >>

\* lines 87-95: one iteration of the loop up to the read
ReadFile ==
    /\ pc = "loop"
    /\ idx <= Len(files)
    /\ attempted' = Append(attempted, files[idx])
    /\ \/ /\ emitted' = <<>>
          /\ Running("validate")
          /\ UNCHANGED << success, idx, sawReadFail >>
       \/ /\ emitted' = <<Emit("ERROR", files[idx], "", "Could not open file")>>
          /\ sawReadFail' = TRUE
          /\ IF earlyExit(ExitOnError)
             THEN /\ Exit(1, "earlyExit")
                  /\ UNCHANGED << success, idx >>
             ELSE /\ success' = FALSE
                  /\ idx' = idx + 1
                  /\ Running("loop")
    /\ UNCHANGED << inputs, scanned, FileName, windowsStdinIssue, path, files, aggErr, results,
                    caches, nCalls, lastCall, stdinRead, walks, sawInvalid,
                    sawInvokeErr >>

\* lines 96-103: the Validator call on the file just read
Validate ==
    /\ pc = "validate"
    /\ FileName' = fileNameForCall(FileName, files[idx])
    /\ nCalls' = nCalls + 1
    /\ lastCall' = CallArgs(files[idx], FileContents(files[idx]), caches, FileName')
    /\ \/ /\ results' = <<>>
          /\ sawInvokeErr' = TRUE
          /\ emitted' = ErrorLine("validate")
          /\ IF earlyExit(ExitOnError)
             THEN /\ Exit(1, "earlyExit")
                  /\ UNCHANGED << success, idx >>
             ELSE /\ success' = FALSE
                  /\ idx' = idx + 1
                  /\ Running("loop")
       \/ \E shapes \in SeqsUpTo(RunShapes, MaxResults) :
             /\ results' = Stamp(shapes, FileName')
             /\ emitted' = <<>>
             /\ Running("log")
             /\ UNCHANGED << success, idx, sawInvokeErr >>
    /\ UNCHANGED << inputs, scanned, windowsStdinIssue, path, files, aggErr, caches, stdinRead,
                    walks, attempted, sawInvalid, sawReadFail >>

\* mutant of LogResults: a schema violation applies the early-exit policy
LogResults_earlyExit ==
    /\ pc = "log"
    /\ LET r == logResults(results, success) IN
         /\ success' = r.success
         /\ emitted' = r.out
    /\ sawInvalid' = (sawInvalid \/ HasInvalid(results))
    /\ results' = <<>>
    /\ IF HasInvalid(results) /\ earlyExit(ExitOnError)
       THEN /\ Exit(1, "earlyExit")
            /\ UNCHANGED idx
       ELSE IF path = "stdin"
            THEN /\ Running("end")
                 /\ UNCHANGED idx
            ELSE /\ idx' = idx + 1
                 /\ Running("loop")
    /\ UNCHANGED << inputs, scanned, FileName, windowsStdinIssue, path, files, aggErr, caches,
                    nCalls, lastCall, stdinRead, walks, attempted, sawReadFail,
                    sawInvokeErr >>

\* lines 75 and 104: success = logResults(results, success)
LogResults ==
    /\ pc = "log"
    /\ LET r == logResults(results, success) IN
         /\ success' = r.success
         /\ emitted' = r.out
    /\ sawInvalid' = (sawInvalid \/ HasInvalid(results))
    /\ results' = <<>>
    /\ IF path = "stdin"
       THEN /\ Running("end")
            /\ UNCHANGED idx
       ELSE /\ idx' = idx + 1
            /\ Running("loop")
    /\ UNCHANGED << inputs, scanned, FileName, windowsStdinIssue, path, files, aggErr, caches,
                    nCalls, lastCall, stdinRead, walks, attempted, sawReadFail,
                    sawInvokeErr >>

\* lines 107-110: the verdict
Finish ==
    /\ \/ pc = "end"
       \/ pc = "loop" /\ idx > Len(files)
    /\ IF ~success THEN Exit(1, "end") ELSE Exit(0, "return")
    /\ emitted' = <<>>
    /\ UNCHANGED << inputs, scanned, FileName, success, windowsStdinIssue, path, files, aggErr,
                    idx, results, caches, nCalls, lastCall, stdinRead, walks,
                    attempted, sawInvalid, sawReadFail, sawInvokeErr >>

Next ==
    \/ Stat
    \/ ReadStdin
    \/ UsageError
    \/ Aggregate
    \/ ReadFile
    \/ Validate
    \/ LogResults
    \/ Finish

Spec == Init /\ [][Next]_vars

(* logResults on every list of results: the run taken up where the        *)
(* Validator has just returned for the file a.yaml, with either value of   *)
(* success (FALSE: an earlier source failed)                               *)
InitLog ==
    /\ pc = "log"
    /\ args = <<"a.yaml">>
    /\ directories = <<>>
    /\ ExitOnError \in BOOLEAN
    /\ GOOS = "linux"
    /\ stat = "chardev"
    /\ FileName = "a.yaml"
    /\ success \in BOOLEAN
    /\ windowsStdinIssue = FALSE
    /\ path = "files"
    /\ files = <<"a.yaml">>
    /\ aggErr = NilError
    /\ idx = 1
    /\ results \in {Stamp(shapes, "a.yaml") : shapes \in SeqsUpTo(Shapes, MaxDocs)}
    /\ emitted = <<>>
    /\ exitCode = -1
    /\ exitAt = ""
    /\ caches = 1
    /\ nCalls = 1
    /\ lastCall = CallArgs("a.yaml", FileContents("a.yaml"), 1, "a.yaml")
    /\ stdinRead = FALSE
    /\ scanned = <<>>
    /\ walks = 0
    /\ attempted = <<"a.yaml">>
    /\ sawInvalid = FALSE
    /\ sawReadFail = FALSE
    /\ sawInvokeErr = FALSE

NextLog ==
    \/ LogResults
    \/ Finish

SpecLog == InitLog /\ [][NextLog]_vars

(* ====================== the claims, C1 to C10 ========================== *)

Range(f) == {f[i] : i \in 1..Len(f)}

\* the run took the file branch and got past the usage check
Aggregated == path = "files" /\ exitAt # "usage"

\* the run ended at the bottom of Run (lines 107-110), not at an os.Exit above
EndedAtBottom == pc = "exited" /\ exitAt \in {"end", "return"}

(* What is on the file system of Tree, stated by hand: the roots whose     *)
(* walk fails, and for each root the entries named *.yaml that a walk      *)
(* comes across before it ends: the regular files, and every entry that    *)
(* is not a directory (d3/l.yaml is a symbolic link).                      *)
FailingDirs == {"nodir", "d3"}

RegularYamlFiles(directory) ==
    CASE directory = "d1" -> <<"d1/a.yaml">>
      [] OTHER -> <<>>

YamlFiles(directory) ==
    CASE directory = "d1" -> <<"d1/a.yaml">>
      [] directory = "d3" -> <<"d3/l.yaml">>
      [] OTHER -> <<>>

RECURSIVE RegularFoundUnder(_, _)
RegularFoundUnder(dirs, i) ==
    IF i > Len(dirs) THEN <<>>
    ELSE RegularYamlFiles(dirs[i]) \o RegularFoundUnder(dirs, i + 1)

RECURSIVE FoundUnder(_, _)
FoundUnder(dirs, i) ==
    IF i > Len(dirs) THEN <<>> ELSE YamlFiles(dirs[i]) \o FoundUnder(dirs, i + 1)

WalkFailed == \E i \in 1..Len(directories) : directories[i] \in FailingDirs

Contains(s, sub) ==
    \E i \in 1..(Len(s) - Len(sub) + 1) : SubSeq(s, i, i + Len(sub) - 1) = sub

Cause == sawInvalid \/ sawReadFail \/ sawInvokeErr

\* C1 (as stated): on the file-list path, a run that reaches the end of the
\* loop ends with a false verdict if and only if a result had errors, a file
\* could not be read or a Validator call failed; nothing else makes it false.
C1_VerdictIffThreeCauses ==
    (EndedAtBottom /\ path = "files") => ((exitCode = 1) <=> Cause)

\* C1 (amended): on the file-list path, a run that reaches the end of the
\* loop ends with a false verdict (exit status 1) if and only if a result
\* had errors, a file could not be read, a Validator call failed, or a
\* directory walk of aggregateFiles failed.
C1_VerdictIffFourCauses ==
    (EndedAtBottom /\ path = "files") =>
        /\ (exitCode = 1) <=> (Cause \/ WalkFailed)
        /\ (exitCode = 1) <=> ~success
        /\ exitCode \in {0, 1}

\* a run whose every file was read and found valid, failed by a walk alone
C1_Witness ==
    /\ EndedAtBottom /\ path = "files"
    /\ WalkFailed /\ ~Cause
    /\ nCalls >= 2
    /\ exitCode = 1

\* C2: with config.ExitOnError set, the first read failure or Validator
\* failure of the file loop ends the process at once with status 1: the
\* failing file is the last one read, and no step follows.
C2_EarlyExitStops ==
    (ExitOnError /\ path = "files" /\ (sawReadFail \/ sawInvokeErr)) =>
        /\ pc = "exited"
        /\ exitCode = 1
        /\ exitAt = "earlyExit"
        /\ idx <= Len(files)
        /\ attempted = SubSeq(files, 1, idx)
        /\ nCalls <= idx
        /\ ~ENABLED Next

\* the second of three or more files fails and the third is never read
C2_Witness ==
    /\ ExitOnError /\ exitAt = "earlyExit"
    /\ Len(files) >= 3 /\ idx = 2
    /\ sawReadFail
    /\ Len(attempted) = 2

\* the steps Run still has to take at most: three per file left (read,
\* validate, log) and the verdict
StepsLeft ==
    IF pc = "exited" THEN 0
    ELSE 3 * (Len(files) - idx + 1)
         + (CASE pc = "loop" -> 3 [] pc = "validate" -> 2 [] pc = "log" -> 1 [] OTHER -> 0)

\* C3: with config.ExitOnError not set, every file of the list is attempted
\* exactly once, in list order, whatever failed before, and the process ends
\* only after the last file, at the bottom of Run.  "Eventually" is stated as
\* termination: the run is never stuck before it has exited, and every step
\* brings it closer to the exit.
C3_AllFilesAttempted ==
    /\ [](~ExitOnError /\ Aggregated =>
            /\ Len(attempted) <= Len(files)
            /\ attempted = SubSeq(files, 1, Len(attempted))
            /\ (pc = "exited" => EndedAtBottom /\ attempted = files)
            /\ (pc # "exited" => ENABLED Next))
    /\ [][(~ExitOnError /\ Aggregated) => StepsLeft' < StepsLeft]_vars

\* all three kinds of failure happened and the run still read every file
C3_Witness ==
    /\ ~ExitOnError /\ EndedAtBottom
    /\ Len(files) >= 3 /\ attempted = files
    /\ sawReadFail /\ sawInvokeErr /\ sawInvalid

\* C4: a result with a non-empty error list never ends the run by itself,
\* whatever config.ExitOnError is: logResults marks the run failed, the loop
\* goes on with the next source, and a run with no read or Validator failure
\* ends only at the bottom of Run, after every file.
C4_InvalidNeverExits ==
    /\ [][(pc = "log" /\ HasInvalid(results)) =>
            /\ pc' # "exited"
            /\ ~success'
            /\ (path = "files" => pc' = "loop" /\ idx' = idx + 1)]_vars
    /\ []((pc = "exited" /\ Aggregated /\ sawInvalid /\ ~sawReadFail /\ ~sawInvokeErr)
            => (exitAt = "end" /\ exitCode = 1 /\ attempted = files))

\* early exit is set, a document was invalid, and the loop is at a later file
C4_Witness ==
    /\ ExitOnError /\ sawInvalid
    /\ pc = "validate" /\ idx >= 2

\* C5 (as stated): standard input is the source exactly when it is a
\* non-interactive stream and the arguments are empty or are the single
\* argument "-"; any other run that selects a source takes the file branch.
C5_StdinIffSoleDash ==
    (path # "none") =>
        ((path = "stdin") <=>
            (stat = "pipe" /\ (args = <<>> \/ args = <<"-">>)))

\* C6: when some directory cannot be walked, aggregateFiles still walks every
\* other directory: the list holds every .yaml file of the walkable ones, the
\* error is non-nil and names each failing directory, and Run goes on to read
\* every file of the list (short of an early exit on a read or Validator
\* failure) and to call the Validator on each file it could read.
C6_WalkFailureDoesNotStop ==
    (Aggregated /\ WalkFailed) =>
        /\ walks = Len(directories)
        /\ \A i \in 1..Len(directories) :
              Range(YamlFiles(directories[i])) \subseteq Range(files)
        /\ ~aggErr.isNil
        /\ \A i \in 1..Len(directories) :
              directories[i] \in FailingDirs =>
                 \E j \in 1..Len(aggErr.Errors) :
                    Contains(aggErr.Errors[j], directories[i])
        /\ (pc = "exited" =>
              \/ exitAt = "end" /\ attempted = files
              \/ exitAt = "earlyExit" /\ ExitOnError /\ (sawReadFail \/ sawInvokeErr))
        /\ (pc = "exited" /\ ~sawReadFail /\ exitAt = "end" => nCalls = Len(files))
        /\ (pc # "exited" => ENABLED Next)

\* the failing directory comes first and the files of the next one are
\* all read and validated
C6_Witness ==
    /\ directories = <<"nodir", "d1">>
    /\ EndedAtBottom
    /\ "d1/a.yaml" \in Range(attempted)
    /\ nCalls = Len(files)
    /\ Len(aggErr.Errors) = 1

\* C7 (as stated): the list aggregateFiles returns is the arguments verbatim,
\* in order, followed by, for each directory in the order of directories,
\* the regular files found under it whose name ends in ".yaml"
\* (case-sensitive); no directory and no other name is added.
C7_OnlyRegularFiles ==
    Aggregated => files = args \o RegularFoundUnder(directories, 1)

\* C7 (amended): the list aggregateFiles returns is the arguments verbatim,
\* in order, followed by, for each directory in the order of directories,
\* the entries its walk comes across that are not directories (regular files,
\* and also symbolic links and other non-directory entries) and whose name
\* ends in ".yaml" (case-sensitive); no directory and no other name is added.
C7_FileListShape ==
    Aggregated => files = args \o FoundUnder(directories, 1)

\* arguments and two directories, given against the lexical order
C7_Witness ==
    /\ Aggregated
    /\ args = <<"a.yaml", "-">>
    /\ directories = <<"d3", "d1">>
    /\ files = <<"a.yaml", "-", "d3/l.yaml", "d1/a.yaml">>

\* the category the priority rule of the classifier gives a result
ExpectedCategory(r) ==
    CASE r.Errors # <<>> -> "INVALID"
      [] r.Errors = <<>> /\ r.Kind = "" -> "EMPTY_DOCUMENT"
      [] r.Errors = <<>> /\ r.Kind # "" /\ ~r.ValidatedAgainstSchema -> "SKIPPED_NO_SCHEMA"
      [] OTHER -> "VALID"

\* the category emissions among what was emitted, in order
OutcomeCategories == {"INVALID", "EMPTY_DOCUMENT", "SKIPPED_NO_SCHEMA", "VALID"}

Categories(out) == SelectSeq(out, LAMBDA e : e.cat \in OutcomeCategories)

\* C8: logResults gives every result exactly one category, by the priority
\* INVALID, EMPTY_DOCUMENT, SKIPPED_NO_SCHEMA, VALID; only INVALID changes
\* the success flag (to false), any other list leaves the flag as passed in.
C8_Classification ==
    [][pc = "log" =>
         /\ Len(Categories(emitted')) = Len(results)
         /\ \A i \in 1..Len(results) :
               Categories(emitted')[i].cat = ExpectedCategory(results[i])
         /\ success' = IF \E i \in 1..Len(results) :
                            ExpectedCategory(results[i]) = "INVALID"
                       THEN FALSE ELSE success]_vars

\* an empty and an unvalidated document classified, the flag still true
C8_Witness ==
    /\ pc = "loop" /\ success
    /\ Len(emitted) = 2
    /\ emitted[1].cat = "EMPTY_DOCUMENT"
    /\ emitted[2].cat = "SKIPPED_NO_SCHEMA"

\* C9: on the file branch with no arguments and no directories the run ends
\* with a usage error and status 1 before anything else happens: no cache,
\* no walk, no file read, no Validator call.
C9_UsageError ==
    /\ (path = "files" /\ args = <<>> /\ directories = <<>>) =>
          /\ pc = "exited"
          /\ exitAt = "usage"
    /\ exitAt = "usage" =>
          /\ exitCode = 1
          /\ args = <<>> /\ directories = <<>>
          /\ caches = 0 /\ walks = 0 /\ nCalls = 0
          /\ attempted = <<>> /\ files = <<>> /\ ~stdinRead

\* the usage error on a terminal
C9_Witness ==
    /\ exitAt = "usage" /\ stat = "chardev"
    /\ emitted = ErrorLine("usage")

\* C10 (as stated): whenever the probe of standard input fails, the run does
\* not read standard input and does not stop because of the failure: it goes
\* on as a file-argument invocation.
C10_ProbeFailureFallsBack ==
    (stat = "err" /\ pc # "start") =>
        /\ ~stdinRead
        /\ path # "stdin"
        /\ exitAt # "stat"

\* C10 (amended): when the probe of standard input fails, standard input is
\* never read; on Windows the run does not stop because of the failure and
\* goes on as a file-argument invocation, on any other platform the failure
\* ends the process with status 1 before any source is selected.
C10_ProbeFailureByPlatform ==
    (stat = "err" /\ pc # "start") =>
        /\ ~stdinRead
        /\ path # "stdin"
        /\ IF GOOS = "windows"
           THEN /\ windowsStdinIssue
                /\ exitAt # "stat"
                /\ (pc # "select" => path = "files")
           ELSE /\ pc = "exited" /\ exitAt = "stat" /\ exitCode = 1
                /\ path = "none" /\ caches = 0 /\ nCalls = 0

\* on Windows the probe failed and "-" was then read as a file
C10_Witness ==
    /\ stat = "err" /\ GOOS = "windows"
    /\ args = <<"-">>
    /\ attempted = <<"-">>
    /\ ~stdinRead

(* ====================== the claims, C11 to C19 ========================= *)

\* a step that calls the Validator
Calls == nCalls' = nCalls + 1

\* C11: a run constructs at most one SchemaCache, constructs it before the
\* first Validator call, and hands that same instance to every Validator
\* call: no call gets another cache than the call before it.
C11_OneSharedCache ==
    /\ [](/\ caches <= 1
          /\ (nCalls > 0 => caches = 1 /\ lastCall.cache = 1))
    /\ [][/\ caches' >= caches
          /\ (Calls => /\ caches' = 1
                       /\ lastCall'.cache = caches'
                       /\ (nCalls > 0 => /\ caches' = caches
                                         /\ lastCall'.cache = lastCall.cache))]_vars

\* the third Validator call of a run, on the cache of the first
C11_Witness ==
    /\ nCalls = 3
    /\ caches = 1
    /\ lastCall.cache = 1
    /\ lastCall.src = files[3]

\* the document the stdin branch builds from the lines of StdinContents,
\* stated by hand
ExpectedBuffer(lines) ==
    CASE lines = <<>> -> ""
      [] lines = <<"a: 1">> -> "a: 1\n"
      [] OTHER -> "kind: Pod\na: 1\n"

\* C12: on the stdin path the Validator is called exactly once in the run,
\* with the whole buffered input and the run's cache, and every result it
\* returns goes through logResults; no file is read and no directory is
\* walked, even when directories were given.
C12_StdinPath ==
    /\ [](path = "stdin" =>
            /\ stdinRead
            /\ nCalls = 1 /\ caches = 1
            /\ lastCall.src = "stdin"
            /\ lastCall.data = ExpectedBuffer(scanned)
            /\ lastCall.cache = 1
            /\ attempted = <<>> /\ files = <<>> /\ walks = 0)
    /\ [][(path = "stdin" /\ pc = "log") =>
            /\ Len(Categories(emitted')) = Len(results)
            /\ \A i \in 1..Len(results) :
                  /\ Categories(emitted')[i].cat = ExpectedCategory(results[i])
                  /\ Categories(emitted')[i].file = ViperFilename
            /\ pc' = "end"]_vars

\* two lines on standard input, directories given, two results classified
C12_Witness ==
    /\ path = "stdin" /\ pc = "end"
    /\ Len(directories) = 2
    /\ Len(scanned) = 2
    /\ Len(Categories(emitted)) = 2
    /\ nCalls = 1 /\ walks = 0

\* a step in which ioutil.ReadFile fails on the file at idx: the step that
\* reports "Could not open file" for it
ReadFails ==
    /\ pc = "loop" /\ idx <= Len(files)
    /\ emitted' = <<Emit("ERROR", files[idx], "", "Could not open file")>>

\* C13: for a source that cannot be read the Validator is not called and no
\* result is classified: the failure is reported, the early-exit policy is
\* applied, and if the process goes on the run is marked failed and the loop
\* is at the next source.
C13_UnreadableSkipped ==
    /\ [][ReadFails =>
            /\ nCalls' = nCalls /\ lastCall' = lastCall
            /\ results' = <<>> /\ FileName' = FileName
            /\ Categories(emitted') = <<>>
            /\ IF ExitOnError
               THEN pc' = "exited" /\ exitCode' = 1
               ELSE pc' = "loop" /\ idx' = idx + 1 /\ ~success']_vars
    /\ [][Calls /\ path' = "files" =>
            /\ pc = "validate"
            /\ lastCall'.src = files[idx]
            /\ attempted[Len(attempted)] = files[idx]]_vars
    /\ [](Aggregated => nCalls <= Len(attempted))

\* two unreadable files passed over, no Validator call yet
C13_Witness ==
    /\ pc = "loop" /\ idx = 3
    /\ sawReadFail /\ ~success
    /\ nCalls = 0 /\ lastCall = NoCall
    /\ Len(attempted) = 2

\* C14: at every Validator call of the file loop config.FileName is the name
\* of the source whose bytes are validated; the field is written at the call
\* of each source that was read, and a source that cannot be read leaves it
\* as it was.
C14_FileNameAtCall ==
    /\ [][(Calls /\ path' = "files") =>
            /\ lastCall'.src = files[idx]
            /\ lastCall'.data = "contents of " \o files[idx]
            /\ lastCall'.fileName = files[idx]
            /\ FileName' = files[idx]]_vars
    /\ [][(Aggregated /\ FileName' # FileName) => Calls]_vars
    /\ [][ReadFails => FileName' = FileName]_vars
    /\ [](pc = "log" /\ path = "files" =>
            \A i \in 1..Len(results) : results[i].FileName = files[idx])

\* the third source is validated under its own name after a failed read
C14_Witness ==
    /\ pc = "log" /\ idx = 3
    /\ sawReadFail /\ nCalls = 2
    /\ files[3] # files[1] /\ files[1] # files[2]
    /\ FileName = files[3]
    /\ lastCall.fileName = files[3]

\* the error each walk of the file system of Tree ends with, stated by hand
RECURSIVE ExpectedErrors(_, _)
ExpectedErrors(dirs, i) ==
    IF i > Len(dirs) THEN <<>>
    ELSE (CASE dirs[i] = "nodir" -> <<"lstat nodir: no such file or directory">>
            [] dirs[i] = "d3" -> <<"open d3/locked: permission denied">>
            [] OTHER -> <<>>)
         \o ExpectedErrors(dirs, i + 1)

\* C15: the error aggregateFiles returns is nil if and only if no walk
\* failed; otherwise it holds exactly one component for each failed walk, in
\* the order of directories, none dropped, merged, deduplicated or reordered.
C15_CombinedError ==
    Aggregated =>
        /\ aggErr.isNil <=> ~WalkFailed
        /\ aggErr.Errors = ExpectedErrors(directories, 1)
        /\ (aggErr.isNil => aggErr = NilError)
        /\ (~aggErr.isNil =>
              /\ emitted = ErrorLine(ErrorText(aggErr)) \/ pc # "loop" \/ idx # 1
              /\ \A i \in 1..Len(aggErr.Errors) :
                    Contains(ErrorText(aggErr), aggErr.Errors[i]))

\* the same directory fails twice and is held twice
C15_Witness ==
    /\ Aggregated
    /\ directories = <<"nodir", "nodir">>
    /\ Len(aggErr.Errors) = 2
    /\ aggErr.Errors[1] = aggErr.Errors[2]

\* what reporting a list of results in the given order emits: for each
\* result its category line, with its file and kind, and for an INVALID one
\* its error descriptions in their order right after
RECURSIVE ExpectedEmissions(_, _)
ExpectedEmissions(rs, i) ==
    IF i > Len(rs) THEN <<>>
    ELSE LET c == ExpectedCategory(rs[i])
             line == [cat |-> c, file |-> rs[i].FileName,
                      kind |-> IF c = "EMPTY_DOCUMENT" THEN "" ELSE rs[i].Kind,
                      desc |-> ""]
             descs == IF c = "INVALID"
                      THEN [k \in 1..Len(rs[i].Errors) |->
                              [cat |-> "--->", file |-> "", kind |-> "",
                               desc |-> rs[i].Errors[k]]]
                      ELSE <<>>
         IN <<line>> \o descs \o ExpectedEmissions(rs, i + 1)

\* C16: the emissions of a run come in source-processing order: what is
\* emitted for a source is emitted while the loop is at that source, the loop
\* only moves forward and leaves a source once something was emitted for it;
\* within a source the results are reported in the order the Validator
\* returned them, one category line each, an INVALID one directly followed
\* by its error descriptions in their order.
C16_EmissionOrder ==
    /\ [][pc = "log" => emitted' = ExpectedEmissions(results, 1)]_vars
    /\ [][(Aggregated /\ pc # "exited") =>
            /\ idx' >= idx
            /\ \A k \in 1..Len(emitted') : emitted'[k].file \in {"", files[idx]}
            /\ (emitted' # <<>> => idx' = idx + 1 \/ pc' = "exited")]_vars

\* the second source reported: an invalid document with its two error
\* descriptions, then a valid one
C16_Witness ==
    /\ pc = "loop" /\ idx = 3
    /\ Len(emitted) = 4
    /\ emitted[1].cat = "INVALID" /\ emitted[1].file = files[2]
    /\ emitted[2].desc = "e1" /\ emitted[3].desc = "e2"
    /\ emitted[4].cat = "VALID" /\ emitted[4].file = files[2]

\* C17: the success flag is monotone: it starts true, no step sets it back to
\* true once it is false, and a run in which it became false ends with exit
\* status 1.
C17_SuccessMonotone ==
    /\ [](pc = "start" => success)
    /\ [][~success => ~success']_vars
    /\ [](pc = "exited" /\ ~success => exitCode = 1)

\* the flag is false from an earlier source and a valid document has just
\* been reported for a later one
C17_Witness ==
    /\ pc = "loop" /\ idx = 3
    /\ ~success /\ sawInvalid
    /\ Len(emitted) = 1 /\ emitted[1].cat = "VALID"

\* C18: a failed directory walk never applies the early-exit policy, whatever
\* the exit-on-error flag: the step that builds the file list reports the
\* error, makes the verdict false and enters the loop at the first file; the
\* run then ends with exit status 1, either at the bottom after every file
\* of the list was attempted, or at the early exit of a read or invocation
\* failure.
C18_WalkFailureNoEarlyExit ==
    /\ [][(pc = "select" /\ path' = "files" /\ WalkFailed) =>
            /\ pc' = "loop" /\ idx' = 1
            /\ ~success'
            /\ emitted' = ErrorLine(ErrorText(aggErr'))]_vars
    /\ []((Aggregated /\ WalkFailed /\ pc = "exited") =>
            /\ exitCode = 1
            /\ \/ exitAt = "end" /\ attempted = files
               \/ /\ exitAt = "earlyExit" /\ ExitOnError
                  /\ sawReadFail \/ sawInvokeErr)

\* the flag is set, a walk failed, every file of a list of two or more was
\* attempted and every document was valid, and the run ended with status 1
C18_Witness ==
    /\ ExitOnError /\ WalkFailed
    /\ EndedAtBottom /\ path = "files"
    /\ ~Cause
    /\ Len(files) >= 2 /\ attempted = files
    /\ nCalls = Len(files)
    /\ exitCode = 1

\* the step in which a Validator call fails
InvocationFails == nCalls' = nCalls + 1 /\ emitted' = ErrorLine("validate")

\* C19: a failed Validator call on the stdin path ends the run with exit
\* status 1 whatever the exit-on-error flag, and no result is classified or
\* reported; the same failure on the file-list path ends the run at once
\* exactly when the flag is set, and otherwise makes the verdict false and
\* moves to the next file.
C19_InvocationFailure ==
    /\ [][(InvocationFails /\ pc = "select") =>
            /\ pc' = "exited" /\ exitCode' = 1
            /\ results' = <<>>
            /\ Categories(emitted') = <<>>]_vars
    /\ []((path = "stdin" /\ sawInvokeErr) =>
            /\ pc = "exited" /\ exitCode = 1
            /\ ~sawInvalid /\ results = <<>>)
    /\ [][(InvocationFails /\ pc = "validate") =>
            /\ (pc' = "exited") <=> ExitOnError
            /\ pc' = "exited" => exitCode' = 1
            /\ pc' # "exited" => (pc' = "loop" /\ idx' = idx + 1 /\ ~success')]_vars

\* the Validator call on standard input has failed with the flag unset, and
\* the run is over with status 1 and nothing but the error line written
C19_Witness ==
    /\ path = "stdin" /\ sawInvokeErr
    /\ ~ExitOnError
    /\ pc = "exited" /\ exitCode = 1
    /\ emitted = ErrorLine("validate")

====
